---------------------------- MODULE Spec2Model ----------------------------
(***************************************************************************)
(* Relative addressing in a tree of consensus systems: the location model, *)
(* the address converters, LocationInverter::invert_location and reanchor, *)
(* after xcm/xcm-builder/src/location_conversion.rs.                       *)
(***************************************************************************)
EXTENDS Naturals, Sequences, FiniteSets, TLC

VARIABLES
    ancestry,   \* the statically configured Ancestry (Ancestry::get())
    network,    \* the statically configured Network (Network::get())
    op,         \* the operation that produced the current value
    arg,        \* its input
    ret,        \* its output
    pc,         \* per caller: position inside invert_location
    loc,        \* per caller: the location being inverted
    work,       \* per caller: `let mut ancestry = Ancestry::get()`
    junctions,  \* per caller: `let mut junctions = Here`
    left,       \* per caller: iterations of `0..location.parent_count()` left
    res         \* per caller: the value returned by the last call

vars == <<ancestry, network, op, arg, ret, pc, loc, work, junctions, left, res>>

callVars == <<op, arg, ret>>
procVars == <<pc, loc, work, junctions, left, res>>

----------------------------------------------------------------------------
(* Bounds of the model *)

\* parents values tried: 0..MaxParents (u8 in the code)
MaxParents == 10
\* length up to which every sequence over a pool of junctions is tried
MaxShort == 2
\* concurrent callers of invert_location
NumCallers == 2
\* parents values tried by the concurrent callers
MaxConcParents == 3

----------------------------------------------------------------------------
(* Location model *)

\* capacity of Junctions (Here, X1 .. X8)
MAX_JUNCTIONS == 8

Parachain(id) == <<"Parachain", id>>
PalletInstance(n) == <<"PalletInstance", n>>
GeneralIndex(n) == <<"GeneralIndex", n>>
GeneralKey(k) == <<"GeneralKey", k>>
AccountId32(net, id) == <<"AccountId32", net, id>>
AccountKey20(net, key) == <<"AccountKey20", net, key>>
OnlyChild == <<"OnlyChild">>
Plurality == <<"Plurality">>

Here == <<>>

MultiLocation(parents, interior) == [parents |-> parents, interior |-> interior]

\* Result<T, ()>
Ok(v) == [ok |-> TRUE, val |-> v]
Err == [ok |-> FALSE, val |-> <<>>]
\* Result<T, E>::Err(e)
ErrOf(e) == [ok |-> FALSE, val |-> e]

\* AccountId, 32 bytes: all zero (the default), the bytes a ParaId derives,
\* the digest of an encoded location, or any other bytes
ZeroAccount == <<"zero">>
ParaAccount(id) == <<"para", id>>
HashAccount(l) == <<"hash", l>>
RawAccount(n) == <<"raw", n>>

\* a 20-byte key
Key20(n) == <<"key20", n>>

\* Option<Junction>
None == <<"None">>

\* take_first_interior taking the last junction instead of the first
TakeFirstInteriorFromBack(l) ==
    IF l.interior = <<>>
    THEN [first |-> None, rest |-> l]
    ELSE [first |-> l.interior[Len(l.interior)],
          rest |-> [parents |-> l.parents,
                    interior |-> SubSeq(l.interior, 1, Len(l.interior) - 1)]]

\* MultiLocation::take_first_interior: removes and returns the first junction
TakeFirstInterior(l) ==
    IF l.interior = Here
    THEN [first |-> None, rest |-> l]
    ELSE [first |-> Head(l.interior),
          rest |-> MultiLocation(l.parents, Tail(l.interior))]

\* Junctions::pushed_with: appends, or fails when all 8 places are taken
PushedWith(js, j) ==
    IF Len(js) >= MAX_JUNCTIONS THEN Err ELSE Ok(Append(js, j))

----------------------------------------------------------------------------
(* LocationInverter::invert_location *)

\* .unwrap_or(OnlyChild)
UnwrapOrOnlyChild(first) == IF first = None THEN OnlyChild ELSE first

\* the loop cut short at the capacity instead of failing
ParentCountSaturating(location) ==
    IF location.parents > MAX_JUNCTIONS THEN MAX_JUNCTIONS ELSE location.parents

\* for _ in 0..location.parent_count()
ParentCount(location) == location.parents

\* the ascend-count copied from the input instead of its interior's length
InvertedParentsFromParents(location) == location.parents

\* let parents = location.interior().len() as u8
InvertedParents(location) == Len(location.interior)

\* the ancestry consumed from its leaf end (take_last for take_first)
LoopBodyTakeLast(w, js) ==
    LET n == Len(w.interior)
        first == IF n = 0 THEN None ELSE w.interior[n]
        rest == IF n = 0 THEN w
                ELSE [parents |-> w.parents, interior |-> SubSeq(w.interior, 1, n - 1)]
        r == PushedWith(js, IF first = None THEN OnlyChild ELSE first)
    IN  IF r.ok THEN Ok([work |-> rest, junctions |-> r.val]) ELSE Err

\* the first junction read but never removed from the working copy
LoopBodyPeek(w, js) ==
    LET t == TakeFirstInterior(w)
        r == PushedWith(js, IF t.first = None THEN OnlyChild ELSE t.first)
    IN  IF r.ok THEN Ok([work |-> w, junctions |-> r.val]) ELSE Err

\* the junction appended without the capacity check of pushed_with
LoopBodyUnchecked(w, js) ==
    LET t == TakeFirstInterior(w)
    IN  Ok([work |-> t.rest,
            junctions |-> Append(js, IF t.first = None THEN OnlyChild ELSE t.first)])

\* one pass of the loop body: Ok([work, junctions]) or Err
LoopBody(w, js) ==
    LET t == TakeFirstInterior(w)
        r == PushedWith(js, UnwrapOrOnlyChild(t.first))
    IN  IF r.ok THEN Ok([work |-> t.rest, junctions |-> r.val]) ELSE Err

RECURSIVE InvertLoop(_, _, _)
InvertLoop(n, w, js) ==
    IF n = 0 THEN Ok(js)
    ELSE LET b == LoopBody(w, js)
         IN  IF b.ok THEN InvertLoop(n - 1, b.val.work, b.val.junctions) ELSE Err

\* the junctions drawn from the input location instead of the ancestry
InvertLocationOwnInterior(anc, location) ==
    LET r == InvertLoop(ParentCount(location), location, Here)
    IN  IF r.ok THEN Ok(MultiLocation(InvertedParents(location), r.val)) ELSE Err

InvertLocation(anc, location) ==
    LET r == InvertLoop(ParentCount(location), anc, Here)
    IN  IF r.ok THEN Ok(MultiLocation(InvertedParents(location), r.val)) ELSE Err

----------------------------------------------------------------------------
(* Inputs *)

SeqsUpTo(S, n) == UNION {[1..k -> S] : k \in 0..n}

Prefixes(s) == {SubSeq(s, 1, k) : k \in 0..Len(s)}

AncestryPool == {Parachain(1), PalletInstance(42), OnlyChild}

LongAncestry ==
    <<Parachain(1000), PalletInstance(42), PalletInstance(52), GeneralIndex(1),
      AccountKey20("Any", Key20(0)), AccountKey20("Any", Key20(0)), GeneralKey("BNC"), Plurality>>

Ancestries ==
    {MultiLocation(0, s) : s \in SeqsUpTo(AncestryPool, MaxShort) \cup Prefixes(LongAncestry)}

InteriorPool == {Parachain(1), Parachain(2), GeneralIndex(42)}

LongInterior ==
    <<Parachain(2000), PalletInstance(43), PalletInstance(53), GeneralIndex(2),
      AccountId32("Any", ZeroAccount), GeneralKey("KAR"), OnlyChild, Plurality>>

Interiors == SeqsUpTo(InteriorPool, MaxShort) \cup Prefixes(LongInterior)

Locations == {MultiLocation(p, d) : p \in 0..MaxParents, d \in Interiors}

Callers == 1..NumCallers

----------------------------------------------------------------------------
(* Sequential calls of invert_location under a configured ancestry *)

ProcIdle ==
    /\ pc = [c \in Callers |-> "idle"]
    /\ loc = [c \in Callers |-> MultiLocation(0, Here)]
    /\ work = [c \in Callers |-> MultiLocation(0, Here)]
    /\ junctions = [c \in Callers |-> Here]
    /\ left = [c \in Callers |-> 0]
    /\ res = [c \in Callers |-> Err]

CallIdle ==
    /\ op = "none"
    /\ arg = <<>>
    /\ ret = <<>>

Init ==
    /\ ancestry \in Ancestries
    /\ network = "Any"
    /\ CallIdle
    /\ ProcIdle

Invert ==
    /\ op = "none"
    /\ \E l \in Locations :
        /\ op' = "invert"
        /\ arg' = l
        /\ ret' = InvertLocation(ancestry, l)
    /\ UNCHANGED <<ancestry, network, procVars>>

\* the inverted location inverted once more, under the same ancestry
InvertAgain ==
    /\ op = "invert"
    /\ ret.ok
    /\ op' = "invert2"
    /\ arg' = arg
    /\ ret' = InvertLocation(ancestry, ret.val)
    /\ UNCHANGED <<ancestry, network, procVars>>

\* the caller takes the returned value; the next call starts afresh
Return ==
    /\ op # "none"
    /\ op' = "none"
    /\ arg' = <<>>
    /\ ret' = <<>>
    /\ UNCHANGED <<ancestry, network, procVars>>

Next == Invert \/ InvertAgain \/ Return

Spec == Init /\ [][Next]_vars

----------------------------------------------------------------------------
(* Concurrent callers of invert_location, one loop pass at a time *)

ConcAncestries ==
    {MultiLocation(0, Here),
     MultiLocation(0, <<Parachain(1)>>),
     MultiLocation(0, <<Parachain(1000), PalletInstance(42)>>)}

ConcLocations ==
    {MultiLocation(p, d) : p \in 0..MaxConcParents, d \in {Here, <<Parachain(2)>>}}
        \cup {MultiLocation(MAX_JUNCTIONS + 1, <<Parachain(88)>>)}

InitConc ==
    /\ ancestry \in ConcAncestries
    /\ network = "Any"
    /\ CallIdle
    /\ ProcIdle

\* let mut ancestry = Ancestry::get(); let mut junctions = Here;
Call(c) ==
    /\ pc[c] = "idle"
    /\ \E l \in ConcLocations :
        /\ loc' = [loc EXCEPT ![c] = l]
        /\ left' = [left EXCEPT ![c] = ParentCount(l)]
    /\ work' = [work EXCEPT ![c] = ancestry]
    /\ junctions' = [junctions EXCEPT ![c] = Here]
    /\ pc' = [pc EXCEPT ![c] = "loop"]
    /\ UNCHANGED <<ancestry, network, callVars, res>>

\* the loop body run on the configured value itself, not on the call's copy
StepOnShared(c) ==
    /\ pc[c] = "loop"
    /\ left[c] > 0
    /\ LET b == LoopBody(ancestry, junctions[c])
       IN  IF b.ok
           THEN /\ ancestry' = b.val.work
                /\ junctions' = [junctions EXCEPT ![c] = b.val.junctions]
                /\ left' = [left EXCEPT ![c] = left[c] - 1]
                /\ UNCHANGED <<pc, res>>
           ELSE /\ pc' = [pc EXCEPT ![c] = "done"]
                /\ res' = [res EXCEPT ![c] = Err]
                /\ UNCHANGED <<ancestry, junctions, left>>
    /\ UNCHANGED <<network, callVars, loc, work>>

\* junctions = junctions.pushed_with(
\*     ancestry.take_first_interior().unwrap_or(OnlyChild)).map_err(|_| ())?;
Step(c) ==
    /\ pc[c] = "loop"
    /\ left[c] > 0
    /\ LET b == LoopBody(work[c], junctions[c])
       IN  IF b.ok
           THEN /\ work' = [work EXCEPT ![c] = b.val.work]
                /\ junctions' = [junctions EXCEPT ![c] = b.val.junctions]
                /\ left' = [left EXCEPT ![c] = left[c] - 1]
                /\ UNCHANGED <<pc, res>>
           ELSE /\ pc' = [pc EXCEPT ![c] = "done"]
                /\ res' = [res EXCEPT ![c] = Err]
                /\ UNCHANGED <<work, junctions, left>>
    /\ UNCHANGED <<ancestry, network, callVars, loc>>

\* Ok(MultiLocation::new(location.interior().len() as u8, junctions))
Finish(c) ==
    /\ pc[c] = "loop"
    /\ left[c] = 0
    /\ res' = [res EXCEPT ![c] = Ok(MultiLocation(InvertedParents(loc[c]), junctions[c]))]
    /\ pc' = [pc EXCEPT ![c] = "done"]
    /\ UNCHANGED <<ancestry, network, callVars, loc, work, junctions, left>>

\* the caller takes the result; the call's locals are dropped
Take(c) ==
    /\ pc[c] = "done"
    /\ pc' = [pc EXCEPT ![c] = "idle"]
    /\ loc' = [loc EXCEPT ![c] = MultiLocation(0, Here)]
    /\ work' = [work EXCEPT ![c] = MultiLocation(0, Here)]
    /\ junctions' = [junctions EXCEPT ![c] = Here]
    /\ left' = [left EXCEPT ![c] = 0]
    /\ res' = [res EXCEPT ![c] = Err]
    /\ UNCHANGED <<ancestry, network, callVars>>

NextConc == \E c \in Callers : Call(c) \/ Step(c) \/ Finish(c) \/ Take(c)

SpecConc == InitConc /\ [][NextConc]_vars

----------------------------------------------------------------------------
(* Reanchor: a location re-expressed through an inverted location *)

\* the asset's parents matched against the front of the inverted interior
RECURSIVE MatchFront(_, _)
MatchFront(k, i) ==
    IF k = 0 \/ i = Here THEN [parents |-> k, interior |-> i]
    ELSE MatchFront(k - 1, Tail(i))

\* every junction of d pushed at the back of js, or Err once js is full
RECURSIVE PushAll(_, _)
PushAll(js, d) ==
    IF d = Here THEN Ok(js)
    ELSE LET r == PushedWith(js, Head(d))
         IN  IF r.ok THEN PushAll(r.val, Tail(d)) ELSE Err

\* the inverted interior kept whole, no parent matched against it
ReanchorNoMatch(asset, inv) ==
    LET r == PushAll(inv.interior, asset.interior)
    IN  IF r.ok THEN Ok(MultiLocation(inv.parents + asset.parents, r.val)) ELSE Err

\* the parents left over by the match dropped from the result
ReanchorDropsExcess(asset, inv) ==
    LET m == MatchFront(asset.parents, inv.interior)
        r == PushAll(m.interior, asset.interior)
    IN  IF r.ok THEN Ok(MultiLocation(inv.parents, r.val)) ELSE Err

\* what is left of the inverted interior, then the asset's own interior; the
\* parents the match did not absorb go on top of the inverted parents
Reanchor(asset, inv) ==
    LET m == MatchFront(asset.parents, inv.interior)
        r == PushAll(m.interior, asset.interior)
    IN  IF r.ok THEN Ok(MultiLocation(inv.parents + m.parents, r.val)) ELSE Err

\* parents of the inverted locations tried: 0..MaxInvParents
MaxInvParents == 2

InvertedLocations ==
    {MultiLocation(p, a.interior) : p \in 0..MaxInvParents, a \in Ancestries}

InitCore ==
    /\ ancestry \in ConcAncestries
    /\ network = "Any"
    /\ CallIdle
    /\ ProcIdle

PushBack ==
    /\ op = "none"
    /\ \E js \in Interiors, j \in InteriorPool :
        /\ op' = "push"
        /\ arg' = [junctions |-> js, junction |-> j]
        /\ ret' = PushedWith(js, j)
    /\ UNCHANGED <<ancestry, network, procVars>>

ReanchorCall ==
    /\ op = "none"
    /\ \E a \in Locations, i \in InvertedLocations :
        /\ op' = "reanchor"
        /\ arg' = [asset |-> a, inv |-> i]
        /\ ret' = Reanchor(a, i)
    /\ UNCHANGED <<ancestry, network, procVars>>

\* the most calls of take_first_interior made in a row on one location
MaxTakes == 10

\* the first take_first_interior on a location
TakeFirstCall ==
    /\ op = "none"
    /\ \E l \in Locations :
        /\ op' = "take"
        /\ arg' = [start |-> l, before |-> l, calls |-> 1]
        /\ ret' = TakeFirstInterior(l)
    /\ UNCHANGED <<ancestry, network, procVars>>

\* take_first_interior once more, on what the last call left
TakeNext ==
    /\ op = "take"
    /\ arg.calls < MaxTakes
    /\ op' = "take"
    /\ arg' = [start |-> arg.start, before |-> ret.rest, calls |-> arg.calls + 1]
    /\ ret' = TakeFirstInterior(ret.rest)
    /\ UNCHANGED <<ancestry, network, procVars>>

NextCore == Invert \/ PushBack \/ ReanchorCall \/ TakeFirstCall \/ TakeNext \/ Return

SpecCore == InitCore /\ [][NextCore]_vars

----------------------------------------------------------------------------
(* Address converters: Convert<MultiLocation, AccountId> *)

\* ParaId::from(id).into_account()
IntoAccount(id) == ParaAccount(id)

\* ParaId::try_from_account(who): Some(id) as Ok(id), None as Err
TryFromAccount(who) == IF who[1] = "para" THEN Ok(who[2]) ELSE Err

\* MultiLocation::contains_parents_only(count)
ContainsParentsOnly(l, count) == l.parents = count /\ l.interior = Here

\* interior: X1(j)
IsX1(l, kind) == Len(l.interior) = 1 /\ l.interior[1][1] = kind

Account32HashConvert(l) == Ok(HashAccount(l))

\* the digest taken for a derived account and turned back into a location
Account32HashReverseDecodes(who) ==
    IF who[1] = "hash" THEN Ok(who[2]) ELSE Err

\* the failure tagged with a kind of its own
Account32HashReverseTagged(who) == ErrOf(<<"UnsupportedDirection">>)

Account32HashReverse(who) == Err

\* only the parents looked at, the interior ignored
ParentIsDefaultConvertAnyInterior(l) ==
    IF l.parents = 1 THEN Ok(ZeroAccount) ELSE Err

ParentIsDefaultConvert(l) ==
    IF ContainsParentsOnly(l, 1) THEN Ok(ZeroAccount) ELSE Err

ParentIsDefaultReverse(who) ==
    IF who = ZeroAccount THEN Ok(MultiLocation(1, Here)) ELSE Err

ChildParachainConvert(l) ==
    IF l.parents = 0 /\ IsX1(l, "Parachain")
    THEN Ok(IntoAccount(l.interior[1][2])) ELSE Err

ChildParachainReverse(who) ==
    LET id == TryFromAccount(who)
    IN  IF id.ok THEN Ok(MultiLocation(0, <<Parachain(id.val)>>)) ELSE Err

\* the sibling's account derived apart from the child's
SiblingParachainConvertOwnDerivation(l) ==
    IF l.parents = 1 /\ IsX1(l, "Parachain")
    THEN Ok(<<"sibl", l.interior[1][2]>>) ELSE Err

SiblingParachainConvert(l) ==
    IF l.parents = 1 /\ IsX1(l, "Parachain")
    THEN Ok(IntoAccount(l.interior[1][2])) ELSE Err

\* the sibling's location built like the child's, without the parent
SiblingParachainReverseNoParent(who) ==
    LET id == TryFromAccount(who)
    IN  IF id.ok THEN Ok(MultiLocation(0, <<Parachain(id.val)>>)) ELSE Err

SiblingParachainReverse(who) ==
    LET id == TryFromAccount(who)
    IN  IF id.ok THEN Ok(MultiLocation(1, <<Parachain(id.val)>>)) ELSE Err

\* the junction's network never compared with the configured one
AccountId32AliasesConvertAnyNetwork(net, l) ==
    IF l.parents = 0 /\ IsX1(l, "AccountId32")
    THEN Ok(l.interior[1][3]) ELSE ErrOf(l)

AccountId32AliasesConvert(net, l) ==
    IF l.parents = 0 /\ IsX1(l, "AccountId32") /\ l.interior[1][2] = "Any"
    THEN Ok(l.interior[1][3])
    ELSE IF l.parents = 0 /\ IsX1(l, "AccountId32") /\ l.interior[1][2] = net
    THEN Ok(l.interior[1][3])
    ELSE ErrOf(l)

AccountId32AliasesReverse(net, who) ==
    Ok(MultiLocation(0, <<AccountId32(net, who)>>))

AccountKey20AliasesConvert(net, l) ==
    IF l.parents = 0 /\ IsX1(l, "AccountKey20") /\ l.interior[1][2] = "Any"
    THEN Ok(l.interior[1][3])
    ELSE IF l.parents = 0 /\ IsX1(l, "AccountKey20") /\ l.interior[1][2] = net
    THEN Ok(l.interior[1][3])
    ELSE ErrOf(l)

\* the wildcard emitted instead of the configured network
AccountKey20AliasesReverseAny(net, who) ==
    Ok(MultiLocation(0, <<AccountKey20("Any", who)>>))

AccountKey20AliasesReverse(net, who) ==
    Ok(MultiLocation(0, <<AccountKey20(net, who)>>))

\* the converters to 32-byte accounts, by name
Converters ==
    {"Account32Hash", "ParentIsDefault", "ChildParachainConvertsVia",
     "SiblingParachainConvertsVia", "AccountId32Aliases"}

ConvertBy(c, net, l) ==
    CASE c = "Account32Hash" -> Account32HashConvert(l)
      [] c = "ParentIsDefault" -> ParentIsDefaultConvert(l)
      [] c = "ChildParachainConvertsVia" -> ChildParachainConvert(l)
      [] c = "SiblingParachainConvertsVia" -> SiblingParachainConvert(l)
      [] c = "AccountId32Aliases" -> AccountId32AliasesConvert(net, l)

ReverseBy(c, net, who) ==
    CASE c = "Account32Hash" -> Account32HashReverse(who)
      [] c = "ParentIsDefault" -> ParentIsDefaultReverse(who)
      [] c = "ChildParachainConvertsVia" -> ChildParachainReverse(who)
      [] c = "SiblingParachainConvertsVia" -> SiblingParachainReverse(who)
      [] c = "AccountId32Aliases" -> AccountId32AliasesReverse(net, who)

\* the result of the last converter that succeeds, not of the first
RECURSIVE ConvertChainLastWins(_, _, _)
ConvertChainLastWins(list, net, l) ==
    IF list = <<>> THEN Err
    ELSE LET later == ConvertChainLastWins(Tail(list), net, l)
         IN  IF later.ok THEN later ELSE ConvertBy(Head(list), net, l)

\* an ordered list of converters: each tried in turn, the first success
\* returned, failure when none succeeds
RECURSIVE ConvertChain(_, _, _)
ConvertChain(list, net, l) ==
    IF list = <<>> THEN Err
    ELSE LET r == ConvertBy(Head(list), net, l)
         IN  IF r.ok THEN r ELSE ConvertChain(Tail(list), net, l)

RECURSIVE ReverseChain(_, _, _)
ReverseChain(list, net, who) ==
    IF list = <<>> THEN Err
    ELSE LET r == ReverseBy(Head(list), net, who)
         IN  IF r.ok THEN r ELSE ReverseChain(Tail(list), net, who)

\* longest list of converters tried
MaxChain == 3

\* lists of distinct converters
ConverterLists ==
    {s \in SeqsUpTo(Converters, MaxChain) :
        \A i, j \in 1..Len(s) : i # j => s[i] # s[j]}

Networks == {"Any", "Polkadot", "Kusama"}

Accounts ==
    {ZeroAccount, ParaAccount(1), ParaAccount(2), RawAccount(1),
     HashAccount(MultiLocation(1, Here))}

ConvInteriors ==
    {Here, <<Parachain(1)>>, <<Parachain(2)>>, <<PalletInstance(42)>>,
     <<Parachain(1), Parachain(2)>>,
     <<AccountId32("Any", RawAccount(1))>>,
     <<AccountId32("Kusama", ZeroAccount)>>,
     <<AccountId32("Polkadot", ParaAccount(1))>>,
     <<AccountKey20("Any", Key20(0))>>}

\* parents of the locations converted: 0..MaxConvParents
MaxConvParents == 2

ConvLocations ==
    {MultiLocation(p, d) : p \in 0..MaxConvParents, d \in ConvInteriors}

InitConvert ==
    /\ ancestry = MultiLocation(0, Here)
    /\ network \in Networks
    /\ CallIdle
    /\ ProcIdle

ConvertCall ==
    /\ op = "none"
    /\ \E list \in ConverterLists, l \in ConvLocations :
        /\ op' = "convert"
        /\ arg' = [list |-> list, location |-> l]
        /\ ret' = ConvertChain(list, network, l)
    /\ UNCHANGED <<ancestry, network, procVars>>

ReverseCall ==
    /\ op = "none"
    /\ \E list \in ConverterLists, who \in Accounts :
        /\ op' = "reverse"
        /\ arg' = [list |-> list, who |-> who]
        /\ ret' = ReverseChain(list, network, who)
    /\ UNCHANGED <<ancestry, network, procVars>>

NextConvert == ConvertCall \/ ReverseCall \/ Return

SpecConvert == InitConvert /\ [][NextConvert]_vars

----------------------------------------------------------------------------
(* Each conversion scheme on its own, forward, backward and there and back *)

AliasSchemes == {"AccountId32Aliases", "AccountKey20Aliases"}

Schemes == Converters \cup {"AccountKey20Aliases"}

Forward(s, net, l) ==
    IF s = "AccountKey20Aliases" THEN AccountKey20AliasesConvert(net, l)
    ELSE ConvertBy(s, net, l)

Backward(s, net, who) ==
    IF s = "AccountKey20Aliases" THEN AccountKey20AliasesReverse(net, who)
    ELSE ReverseBy(s, net, who)

\* largest sub-system id tried: 1..MaxParaId
MaxParaId == 2

ParaIds == 1..MaxParaId

Keys == {Key20(0), Key20(1)}

SchemeInteriors ==
    ConvInteriors
        \cup {<<Parachain(id)>> : id \in ParaIds}
        \cup {<<AccountId32(n, RawAccount(1))>> : n \in Networks}
        \cup {<<AccountKey20(n, Key20(1))>> : n \in Networks}
        \cup {<<AccountId32("Any", ZeroAccount), Parachain(1)>>,
              <<AccountKey20("Any", Key20(0)), AccountKey20("Any", Key20(1))>>,
              <<OnlyChild>>}

SchemeLocations ==
    {MultiLocation(p, d) : p \in 0..MaxConvParents, d \in SchemeInteriors}

\* the account identifiers of a scheme's AccountId type
SchemeAccounts(s) ==
    IF s = "AccountKey20Aliases" THEN Keys
    ELSE Accounts \cup {ParaAccount(id) : id \in ParaIds}
            \cup {HashAccount(MultiLocation(0, <<Parachain(1)>>))}

InitScheme ==
    /\ ancestry = MultiLocation(0, Here)
    /\ network \in Networks
    /\ CallIdle
    /\ ProcIdle

SchemeConvert ==
    /\ op = "none"
    /\ \E s \in Schemes, l \in SchemeLocations :
        /\ op' = "fwd"
        /\ arg' = [scheme |-> s, location |-> l]
        /\ ret' = Forward(s, network, l)
    /\ UNCHANGED <<ancestry, network, procVars>>

SchemeReverse ==
    /\ op = "none"
    /\ \E s \in Schemes :
        \E who \in SchemeAccounts(s) :
            /\ op' = "bwd"
            /\ arg' = [scheme |-> s, who |-> who]
            /\ ret' = Backward(s, network, who)
    /\ UNCHANGED <<ancestry, network, procVars>>

\* the account a scheme converted a location to, converted back by a scheme
\* of the same AccountId type
SchemeRoundTrip ==
    /\ op = "fwd"
    /\ ret.ok
    /\ \E b \in Schemes :
        /\ (b = "AccountKey20Aliases") <=> (arg.scheme = "AccountKey20Aliases")
        /\ op' = "fwdbwd"
        /\ arg' = [scheme |-> arg.scheme, location |-> arg.location,
                   account |-> ret.val, back |-> b]
        /\ ret' = Backward(b, network, ret.val)
    /\ UNCHANGED <<ancestry, network, procVars>>

\* the same over an ordered list of converters, in both directions
ListRoundTrip ==
    /\ op = "none"
    /\ \E list \in ConverterLists, l \in SchemeLocations :
        LET f == ConvertChain(list, network, l)
        IN  /\ f.ok
            /\ op' = "listfwdbwd"
            /\ arg' = [list |-> list, location |-> l, account |-> f.val]
            /\ ret' = ReverseChain(list, network, f.val)
    /\ UNCHANGED <<ancestry, network, procVars>>

NextScheme ==
    SchemeConvert \/ SchemeReverse \/ SchemeRoundTrip \/ ListRoundTrip
        \/ Invert \/ Return

SpecScheme == InitScheme /\ [][NextScheme]_vars

----------------------------------------------------------------------------
(* Properties of invert_location *)

\* the first n junctions of the ancestry, OnlyChild where the ancestry has none
PaddedPrefix(anc, n) ==
    [i \in 1..n |-> IF i <= Len(anc.interior) THEN anc.interior[i] ELSE OnlyChild]

\* C1: with p <= 8 parents the inversion succeeds and its interior has exactly
\* p junctions: the first min(p, len(A)) junctions of the ancestry A in their
\* order, then OnlyChild for every parent beyond the ancestry.
C1_PrefixThenOnlyChild ==
    (op = "invert" /\ arg.parents <= MAX_JUNCTIONS) =>
        /\ ret.ok
        /\ Len(ret.val.interior) = arg.parents
        /\ \A i \in 1..arg.parents :
              ret.val.interior[i] =
                IF i <= Len(ancestry.interior) THEN ancestry.interior[i] ELSE OnlyChild

C1_Witness ==
    /\ op = "invert"
    /\ ancestry.interior = <<Parachain(1000), PalletInstance(42)>>
    /\ arg.parents = 3
    /\ ret.ok
    /\ ret.val.interior = <<Parachain(1000), PalletInstance(42), OnlyChild>>

\* C2: a successful inversion has as many parents as the input's interior has
\* junctions, whatever the ancestry, the input's parents and junction kinds.
C2_ParentsIsInteriorLen ==
    (op = "invert" /\ ret.ok) => ret.val.parents = Len(arg.interior)

C2_Witness ==
    /\ op = "invert"
    /\ ret.ok
    /\ arg.parents = 2
    /\ Len(arg.interior) = 3
    /\ Len(ancestry.interior) = 1
    /\ ret.val.parents = 3

\* C3: the inversion fails exactly when the input has more than 8 parents,
\* and a successful one holds one junction per parent (nothing is cut off).
C3_OverflowIffMoreThanMax ==
    op = "invert" =>
        /\ ret.ok <=> arg.parents <= MAX_JUNCTIONS
        /\ ret.ok => Len(ret.val.interior) = arg.parents

C3_Witness ==
    /\ op = "invert"
    /\ arg.parents = MAX_JUNCTIONS + 1
    /\ Len(ancestry.interior) = MAX_JUNCTIONS
    /\ arg.interior # Here
    /\ ~ret.ok

\* C4: when the input climbs exactly the length of the ancestry A and then
\* descends D, the inversion is (len(D), A), with no OnlyChild added.
C4_Reciprocal ==
    (op = "invert" /\ arg.parents = Len(ancestry.interior)) =>
        /\ ret.ok
        /\ ret.val = MultiLocation(Len(arg.interior), ancestry.interior)

C4_Witness ==
    /\ op = "invert"
    /\ ancestry.interior = <<Parachain(1)>>
    /\ arg = MultiLocation(1, <<Parachain(2)>>)
    /\ ret.ok
    /\ ret.val = MultiLocation(1, <<Parachain(1)>>)

\* C9: inverting twice is not the identity: whenever the input's interior is
\* not the ancestry's own (OnlyChild-padded) prefix of that length, the double
\* inversion succeeds with a location other than the input.
C9_NotInvolution ==
    (op = "invert2" /\ arg.interior # PaddedPrefix(ancestry, Len(arg.interior))) =>
        /\ ret.ok
        /\ ret.val # arg

C9_Witness ==
    /\ op = "invert2"
    /\ ancestry.interior = <<Parachain(1)>>
    /\ arg = MultiLocation(1, <<Parachain(2)>>)
    /\ ret.ok
    /\ ret.val = MultiLocation(1, <<Parachain(1)>>)

----------------------------------------------------------------------------
(* Properties of reanchor and of the junction bound *)

\* the inverted interior without its first k junctions
DropFirst(i, k) == SubSeq(i, k + 1, Len(i))

\* C5, as claimed: whenever the asset's parents k do not exceed len(I), the
\* reanchored location is (p, I without its first k junctions, then D).
C5_AsClaimed ==
    (op = "reanchor" /\ arg.asset.parents <= Len(arg.inv.interior)) =>
        /\ ret.ok
        /\ ret.val = MultiLocation(arg.inv.parents,
                DropFirst(arg.inv.interior, arg.asset.parents) \o arg.asset.interior)

\* C5, amended: for k <= len(I), reanchor yields (p, I without its first k
\* junctions, then D) when these len(I) - k + len(D) junctions are at most 8;
\* when they are more than 8 it fails and yields no location.
C5_AbsorbedWithinBound ==
    (op = "reanchor" /\ arg.asset.parents <= Len(arg.inv.interior)) =>
        LET k == arg.asset.parents
            n == Len(arg.inv.interior) - k + Len(arg.asset.interior)
        IN  /\ ret.ok <=> n <= MAX_JUNCTIONS
            /\ ret.ok =>
                  ret.val = MultiLocation(arg.inv.parents,
                      DropFirst(arg.inv.interior, k) \o arg.asset.interior)

C5_Witness ==
    /\ op = "reanchor"
    /\ arg.asset = MultiLocation(1, <<Parachain(2), GeneralIndex(42)>>)
    /\ arg.inv = MultiLocation(1, <<Parachain(1), PalletInstance(42)>>)
    /\ ret.ok
    /\ ret.val = MultiLocation(1, <<PalletInstance(42), Parachain(2), GeneralIndex(42)>>)

\* C6: when the asset's parents k exceed len(I), the reanchored location is
\* (p + (k - len(I)), D): the inverted interior is used up and no junction of
\* it is kept.
C6_Excess ==
    (op = "reanchor" /\ arg.asset.parents > Len(arg.inv.interior)) =>
        /\ ret.ok
        /\ ret.val = MultiLocation(
                arg.inv.parents + (arg.asset.parents - Len(arg.inv.interior)),
                arg.asset.interior)

C6_Witness ==
    /\ op = "reanchor"
    /\ arg.asset = MultiLocation(3, <<Parachain(2)>>)
    /\ arg.inv = MultiLocation(1, <<Parachain(1), PalletInstance(42)>>)
    /\ ret.ok
    /\ ret.val = MultiLocation(2, <<Parachain(2)>>)

\* C7: no operation yields more than 8 junctions: a push on 8 junctions
\* fails, an inversion fails rather than cut its output, and a reanchor of
\* inputs of at most 8 junctions each never yields more than 8.
C7_NeverMoreThanMax ==
    /\ op = "push" =>
          /\ Len(arg.junctions) = MAX_JUNCTIONS => ~ret.ok
          /\ ret.ok => Len(ret.val) <= MAX_JUNCTIONS
    /\ op = "invert" =>
          /\ ret.ok => Len(ret.val.interior) = arg.parents
          /\ ret.ok => Len(ret.val.interior) <= MAX_JUNCTIONS
    /\ op = "reanchor" =>
          (ret.ok => Len(ret.val.interior) <= MAX_JUNCTIONS)

\* a reanchor whose composed interior would hold 9 junctions
C7_Witness ==
    /\ op = "reanchor"
    /\ arg.asset.parents = 0
    /\ Len(arg.inv.interior) = MAX_JUNCTIONS
    /\ Len(arg.asset.interior) = 1
    /\ ~ret.ok

----------------------------------------------------------------------------
(* Properties of the ordered conversion *)

Min(S) == CHOOSE x \in S : \A y \in S : x <= y

\* C10: over an ordered list of converters the conversion returns the result
\* of the first converter, in list order, that succeeds on the input, and
\* fails exactly when every converter of the list fails; the reverse
\* conversion of an account does the same.
C10_FirstSuccessWins ==
    /\ op = "convert" =>
          LET S == {i \in 1..Len(arg.list) :
                      ConvertBy(arg.list[i], network, arg.location).ok}
          IN  /\ ret.ok <=> S # {}
              /\ S # {} =>
                    ret.val = ConvertBy(arg.list[Min(S)], network, arg.location).val
    /\ op = "reverse" =>
          LET S == {i \in 1..Len(arg.list) :
                      ReverseBy(arg.list[i], network, arg.who).ok}
          IN  /\ ret.ok <=> S # {}
              /\ S # {} =>
                    ret.val = ReverseBy(arg.list[Min(S)], network, arg.who).val

\* the second converter would succeed too, with another account
C10_Witness ==
    /\ op = "convert"
    /\ arg.list = <<"SiblingParachainConvertsVia", "ParentIsDefault", "Account32Hash">>
    /\ arg.location = MultiLocation(1, Here)
    /\ ret.ok
    /\ ret.val = ZeroAccount

----------------------------------------------------------------------------
(* Properties of the conversion schemes *)

Child == "ChildParachainConvertsVia"
Sibling == "SiblingParachainConvertsVia"

\* C11: the derivation is recoverable: the child scheme converts (0, [P]) and
\* back to (0, [P]), the sibling scheme (1, [P]) and back to (1, [P]), for
\* every sub-system id P; a successful backward conversion has 0 parents under
\* the child scheme and 1 parent under the sibling scheme.
C11_RecoverableRoundTrip ==
    /\ op = "fwd" =>
          \A id \in ParaIds :
              /\ (arg.scheme = Child /\ arg.location = MultiLocation(0, <<Parachain(id)>>))
                    => ret.ok
              /\ (arg.scheme = Sibling /\ arg.location = MultiLocation(1, <<Parachain(id)>>))
                    => ret.ok
    /\ (op = "fwdbwd" /\ arg.scheme = arg.back /\ arg.scheme \in {Child, Sibling}) =>
          /\ ret.ok
          /\ ret.val = arg.location
    /\ (op \in {"bwd", "fwdbwd"} /\ ret.ok) =>
          LET b == IF op = "bwd" THEN arg.scheme ELSE arg.back
          IN  /\ b = Child => ret.val.parents = 0
              /\ b = Sibling => ret.val.parents = 1

C11_Witness ==
    /\ op = "fwdbwd"
    /\ arg.scheme = Sibling
    /\ arg.back = Sibling
    /\ arg.location = MultiLocation(1, <<Parachain(2)>>)
    /\ ret.ok
    /\ ret.val = MultiLocation(1, <<Parachain(2)>>)

\* C12: the default scheme converts exactly the location (1, Here), to the
\* default (all-zero) account, and converts back exactly the default account,
\* to (1, Here); every other location and account fails.
C12_ParentIsDefault ==
    /\ (op = "fwd" /\ arg.scheme = "ParentIsDefault") =>
          /\ ret.ok <=> arg.location = MultiLocation(1, Here)
          /\ ret.ok => ret.val = ZeroAccount
    /\ (op = "bwd" /\ arg.scheme = "ParentIsDefault") =>
          /\ ret.ok <=> arg.who = ZeroAccount
          /\ ret.ok => ret.val = MultiLocation(1, Here)

C12_Witness ==
    /\ op = "fwdbwd"
    /\ arg.scheme = "ParentIsDefault"
    /\ arg.back = "ParentIsDefault"
    /\ arg.location = MultiLocation(1, Here)
    /\ arg.account = ZeroAccount
    /\ ret.ok
    /\ ret.val = MultiLocation(1, Here)

\* the junction kind an alias scheme takes
AliasKind(s) == IF s = "AccountId32Aliases" THEN "AccountId32" ELSE "AccountKey20"

\* C13: an alias scheme converts a location exactly when it has 0 parents and
\* one junction, an account of the scheme's kind whose network is the
\* wildcard or the configured network; the result is the junction's bytes.
C13_AliasForward ==
    (op = "fwd" /\ arg.scheme \in AliasSchemes) =>
        LET l == arg.location
            match == /\ l.parents = 0
                     /\ Len(l.interior) = 1
                     /\ l.interior[1][1] = AliasKind(arg.scheme)
                     /\ l.interior[1][2] \in {"Any", network}
        IN  /\ ret.ok <=> match
            /\ ret.ok => ret.val = l.interior[1][3]

C13_Witness ==
    /\ op = "fwd"
    /\ arg.scheme = "AccountId32Aliases"
    /\ network = "Kusama"
    /\ arg.location = MultiLocation(0, <<AccountId32("Kusama", RawAccount(1))>>)
    /\ ret.ok
    /\ ret.val = RawAccount(1)

\* C14, as claimed: an alias scheme converts every account back to
\* (0, [account junction]) carrying the configured network, never the
\* wildcard, whatever network is configured.
C14_AsClaimed ==
    (op = "bwd" /\ arg.scheme \in AliasSchemes) =>
        /\ ret.ok
        /\ ret.val = MultiLocation(0, <<<<AliasKind(arg.scheme), network, arg.who>>>>)
        /\ ret.val.interior[1][2] # "Any"

\* C14, amended: an alias scheme converts every account back to
\* (0, [account junction]) carrying the configured network; that network is
\* the wildcard exactly when the wildcard is the configured network.
C14_AliasBackward ==
    (op = "bwd" /\ arg.scheme \in AliasSchemes) =>
        /\ ret.ok
        /\ ret.val = MultiLocation(0, <<<<AliasKind(arg.scheme), network, arg.who>>>>)
        /\ ret.val.interior[1][2] = "Any" <=> network = "Any"

C14_Witness ==
    /\ op = "bwd"
    /\ arg.scheme = "AccountKey20Aliases"
    /\ network = "Kusama"
    /\ arg.who = Key20(1)
    /\ ret.ok
    /\ ret.val = MultiLocation(0, <<AccountKey20("Kusama", Key20(1))>>)

\* C15: the hash scheme is one-way: it converts every location, and converts
\* no account back, not even one it produced itself.
C15_HashOneWay ==
    /\ (op = "fwd" /\ arg.scheme = "Account32Hash") =>
          /\ ret.ok
          /\ ret.val = HashAccount(arg.location)
    /\ (op = "bwd" /\ arg.scheme = "Account32Hash") => ~ret.ok
    /\ (op = "fwdbwd" /\ arg.back = "Account32Hash") => ~ret.ok

C15_Witness ==
    /\ op = "fwdbwd"
    /\ arg.scheme = "Account32Hash"
    /\ arg.back = "Account32Hash"
    /\ arg.location = MultiLocation(2, <<Parachain(1), Parachain(2)>>)
    /\ arg.account = HashAccount(arg.location)
    /\ ~ret.ok

\* the failure of a converter on a location that is not of its shape
NoMatchFailure == ChildParachainConvert(MultiLocation(1, Here))

\* C16, as claimed: failures are told apart by kind: the hash scheme's
\* backward failure and the failure of an inversion beyond 8 junctions each
\* differ from the failure of a converter given the wrong shape.
C16_AsClaimed ==
    /\ ~NoMatchFailure.ok
    /\ (op = "bwd" /\ arg.scheme = "Account32Hash") =>
          /\ ~ret.ok
          /\ ret # NoMatchFailure
    /\ (op = "invert" /\ arg.parents > MAX_JUNCTIONS) =>
          /\ ~ret.ok
          /\ ret # NoMatchFailure

\* C16, amended: every failure is an explicit outcome and never a fault, and
\* carries no kind: a converter given the wrong shape, the hash scheme asked
\* to convert back and an inversion beyond 8 junctions all return the same
\* Err(()); only an alias scheme's forward failure differs, returning the
\* location it was given.
C16_FailuresCarryNoKind ==
    /\ (op \in {"fwd", "bwd", "fwdbwd"} /\ ~ret.ok) =>
          IF op = "fwd" /\ arg.scheme \in AliasSchemes
          THEN ret.val = arg.location
          ELSE ret = Err
    /\ (op = "bwd" /\ arg.scheme = "Account32Hash") =>
          /\ ~ret.ok
          /\ ret = NoMatchFailure
    /\ (op = "invert" /\ arg.parents > MAX_JUNCTIONS) =>
          /\ ~ret.ok
          /\ ret = NoMatchFailure

C16_Witness ==
    /\ op = "bwd"
    /\ arg.scheme = "Account32Hash"
    /\ arg.who = HashAccount(MultiLocation(1, Here))
    /\ ~ret.ok
    /\ ret = ParentIsDefaultReverse(RawAccount(1))

\* the place of a converter in a list that holds it
Pos(list, c) == CHOOSE i \in 1..Len(list) : list[i] = c

Holds(list, c) == \E i \in 1..Len(list) : list[i] = c

\* C18: the child and the sibling scheme derive the same account from a
\* sub-system id: sibling forward of (1, [P]) is child forward of (0, [P]),
\* child backward of it is (0, [P]), and a list holding both schemes does not
\* bring back the location of the scheme listed second.
C18_SharedDerivation ==
    /\ (op = "fwd" /\ arg.scheme = Sibling /\ ret.ok) =>
          LET c == Forward(Child, network, MultiLocation(0, arg.location.interior))
          IN  /\ c.ok
              /\ c.val = ret.val
    /\ (op = "fwdbwd" /\ arg.scheme = Sibling /\ arg.back = Child) =>
          /\ ret.ok
          /\ ret.val = MultiLocation(0, arg.location.interior)
    /\ (op = "listfwdbwd" /\ Holds(arg.list, Child) /\ Holds(arg.list, Sibling)) =>
          LET second == IF Pos(arg.list, Child) > Pos(arg.list, Sibling)
                        THEN 0 ELSE 1
          IN  (arg.location.parents = second /\ IsX1(arg.location, "Parachain")) =>
                  ~(ret.ok /\ ret.val = arg.location)

C18_Witness ==
    /\ op = "listfwdbwd"
    /\ arg.list = <<Child, Sibling>>
    /\ arg.location = MultiLocation(1, <<Parachain(1)>>)
    /\ arg.account = ParaAccount(1)
    /\ ret.ok
    /\ ret.val = MultiLocation(0, <<Parachain(1)>>)

\* C17: take_first_interior returns the first junction and leaves the others
\* in their order with the parents as they were; on an empty interior it
\* returns none and leaves the location as it was; so the n-th call in a row
\* returns the n-th junction of the starting location, after as many calls as
\* there are junctions the interior is empty, and further calls return none.
C17_TakeFirstInterior ==
    op = "take" =>
        LET s == arg.start
            b == arg.before
            n == arg.calls
            d == Len(s.interior)
        IN  /\ ret.rest.parents = s.parents
            /\ b.interior # Here =>
                  /\ ret.first = b.interior[1]
                  /\ ret.rest.interior = Tail(b.interior)
            /\ b.interior = Here =>
                  /\ ret.first = None
                  /\ ret.rest = b
            /\ n <= d =>
                  /\ ret.first = s.interior[n]
                  /\ ret.rest.interior = SubSeq(s.interior, n + 1, d)
            /\ n >= d => ret.rest.interior = Here
            /\ n > d => ret.first = None

C17_Witness ==
    /\ op = "take"
    /\ arg.start = MultiLocation(1, <<Parachain(1), GeneralIndex(42)>>)
    /\ arg.calls = 3
    /\ arg.before = MultiLocation(1, Here)
    /\ ret.first = None
    /\ ret.rest = MultiLocation(1, Here)

\* C19: inverting twice keeps the shape: for an input (p, I) with p <= 8 both
\* inversions succeed and the result has p parents and an interior of the
\* first len(I) junctions of the ancestry, OnlyChild beyond it; the result is
\* the input exactly when I is that padded prefix.
C19_DoubleInversionShape ==
    /\ (op = "invert" /\ arg.parents <= MAX_JUNCTIONS) =>
          /\ ret.ok
          /\ InvertLocation(ancestry, ret.val).ok
    /\ op = "invert2" =>
          LET prefix == PaddedPrefix(ancestry, Len(arg.interior))
          IN  /\ ret.ok
              /\ ret.val.parents = arg.parents
              /\ Len(ret.val.interior) = Len(arg.interior)
              /\ ret.val.interior = prefix
              /\ ret.val = arg <=> arg.interior = prefix

C19_Witness ==
    /\ op = "invert2"
    /\ ancestry.interior = <<Parachain(1)>>
    /\ arg = MultiLocation(2, <<Parachain(1)>>)
    /\ ret.ok
    /\ ret.val = arg

\* every finished call returned what invert_location yields for its input
\* under the configured ancestry
ResultsArePure ==
    \A c \in Callers :
        pc[c] = "done" =>
            /\ res[c].ok = InvertLocation(ancestry, loc[c]).ok
            /\ res[c].ok => res[c].val = InvertLocation(ancestry, loc[c]).val

\* two finished calls with the same input hold the same result
SameInputSameResult ==
    \A c, d \in Callers :
        (pc[c] = "done" /\ pc[d] = "done" /\ loc[c] = loc[d]) =>
            /\ res[c].ok = res[d].ok
            /\ res[c].ok => res[c].val = res[d].val

\* C8: invert_location is a pure function of (L, ancestry): no step of any
\* interleaving of calls changes the configured ancestry (only each call's
\* working copy is consumed), and every call returns the value determined by
\* its input alone, whatever ran before or runs beside it.
C8_PureFunction ==
    /\ [][ancestry' = ancestry]_vars
    /\ [](ResultsArePure /\ SameInputSameResult)

C8_Witness ==
    /\ pc[1] = "done"
    /\ res[1].ok
    /\ res[1].val.interior = <<Parachain(1000), PalletInstance(42), OnlyChild>>
    /\ pc[2] = "loop"
    /\ loc[2] = loc[1]
    /\ work[2].interior = <<PalletInstance(42)>>
    /\ ancestry.interior = <<Parachain(1000), PalletInstance(42)>>

=============================================================================
